---- MODULE Spec2Model ----
(***************************************************************************)
(* Model of BioNER_Finetuning.ipynb: the corpus reader (_read_tsv_data),   *)
(* the label aligner (lemmatize_tokenize_and_align_labels), the per-worker *)
(* training loop (train_loop_per_worker), the learning-rate search         *)
(* (tune_learning_rate) and the metrics (evaluate_token_classification).   *)
(***************************************************************************)
EXTENDS Integers, Sequences, FiniteSets, TLC

(***************************************************************************)
(* Bounds of the model.                                                    *)
(***************************************************************************)
\* longest record, in words (and in labels)
MaxWords == 2
\* most well-formed records one call of the aligner is handed
MaxRecords == 1
\* max_length of the aligner (512 in the notebook), scaled down
max_length == 4
\* most workers of one training run (ScalingConfig num_workers)
MaxWorkers == 2
\* most epochs of one run (num_epochs)
MaxEpochs == 2
\* largest checkpoint_freq
MaxFreq == 2
\* most batches of one worker's train_dataloader
MaxBatches == 1
\* accuracies are drawn from 0 .. MaxAcc
MaxAcc == 1
\* most positions of the dataset one evaluation goes through
MaxTokens == 2
\* most lines of a corpus file
MaxLines == 4
\* largest fetch_limit of the corpus reader
MaxFetch == 2

(***************************************************************************)
(* The aligner: lemmatize_tokenize_and_align_labels                        *)
(***************************************************************************)
VARIABLES
    al_pc,             \* "loop" | "returned" | "raised"
    i,                 \* enumerate index of the next record of the current parsed_file
    record,            \* the record processed last: [words, label_list], or NoRecord
    tokenized_inputs,  \* the accumulator of aligned examples (local of the call)
    al_result,         \* what the call returned: [returned, tokenized_inputs]
    al_error           \* the exception raised, or NoError

al_vars == <<al_pc, i, record, tokenized_inputs, al_result, al_error>>

(***************************************************************************)
(* State of the training runs: train_loop_per_worker, TorchTrainer.fit and *)
(* tune_learning_rate.  A process <<t, w>> is worker w (its world rank) of *)
(* trial t.                                                                *)
(***************************************************************************)
VARIABLES
    num_trials,       \* trials run: num_samples for a search, 1 for a plain trainer.fit()
    num_workers,      \* scaling_config.num_workers
    num_epochs,       \* config["num_epochs"]
    checkpoint_freq,  \* config["checkpoint_freq"]
    trial_status,     \* per trial: "idle" | "running" | "completed" | "failed" | "pruned"
    pc,               \* per process: position in train_loop_per_worker
    epoch,            \* per process: the loop variable epoch
    batch_no,         \* per process: batches of the current epoch already trained
    shard,            \* batches of each worker's train shard, NoShard if None
    params,           \* per process: the worker's model parameters
    requires_grad,    \* per process: requires_grad of the two parameter groups
    epoch_loss,       \* per process: "finite" | "nan"
    train_accuracy,   \* per process: the epoch whose train_accuracy the local holds
    reports,          \* per process: the ray.train.report calls made, in order
    storage,          \* the files under config["checkpoint_dir"], by directory
    saves,            \* per process and epoch: how many checkpoints it created
    best              \* the trial get_best_result picked, 0 while none

tr_vars == <<num_trials, num_workers, num_epochs, checkpoint_freq, shard, trial_status,
             pc, epoch, batch_no, params, requires_grad, epoch_loss, train_accuracy,
             reports, storage, saves, best>>

(***************************************************************************)
(* State of the scheduler of tune_learning_rate (ASHAScheduler)            *)
(***************************************************************************)
VARIABLES
    scheduler,        \* "FIFO" for a plain trainer.fit(), "ASHA" for the search
    rungs             \* per rung milestone and trial: the val_accuracy recorded, or NoReward

sc_vars == <<scheduler, rungs>>

(***************************************************************************)
(* State of one call of evaluate_token_classification                      *)
(***************************************************************************)
VARIABLES
    ev_pc,            \* "idle" | "loop" | "done"
    ev_tokens,        \* the positions of the dataloader's dataset: <<true_label, pred_label, attention_mask>>
    ev_seen,          \* the positions the loops have gone through so far
    confusion,        \* the 3x3 matrix, confusion[true_label][pred_label]
    ev_results        \* the returned dict, or NoResults

ev_vars == <<ev_pc, ev_tokens, ev_seen, confusion, ev_results>>

(***************************************************************************)
(* State of one call of _read_tsv_data                                     *)
(***************************************************************************)
VARIABLES
    rd_pc,            \* "idle" | "call" | "returned"
    input_file,       \* the lines of the file, each as its list of fields
    fetch_limit,      \* the parameter fetch_limit
    rd_lines          \* the list returned: (labelSent, wordSent) pairs

rd_vars == <<rd_pc, input_file, fetch_limit, rd_lines>>

vars == <<al_vars, tr_vars, sc_vars, ev_vars, rd_vars>>

\* tune_learning_rate(num_samples=2)
num_samples == 2

\* scaling_config: num_workers=1
scaling_num_workers == 1

Trials == 1 .. num_samples
Workers == 0 .. MaxWorkers - 1
Procs == Trials \X Workers
Epochs == 0 .. MaxEpochs - 1

\* The processes of the configuration: workers 0 .. num_workers - 1 of
\* trials 1 .. num_samples
Active == {p \in Procs : p[1] <= num_trials /\ p[2] < num_workers}

\* get_dataset_shard returned None
NoShard == 0 - 1

\* The shards the workers can be handed (the dataset is split in equal
\* shards): None, or 0 .. MaxBatches batches
Shards == {NoShard} \cup (0 .. MaxBatches)

\* train_accuracy not computed yet
NoEpoch == 0 - 1

\* AutoModelForTokenClassification.from_pretrained: the pretrained encoder
\* ("base", model.distilbert) and a fresh head ("head", model.classifier);
\* a group's number counts the optimizer steps that changed it
Pretrained == [base |-> 0, head |-> 0, finite |-> TRUE]

NoFile == [base |-> 0, head |-> 0, finite |-> TRUE, owner |-> 0]
NoCheckpoint == [path |-> 0, model |-> NoFile]

\* No result recorded in a rung for a trial
NoReward == 0 - 1

\* The milestones of the rungs of the one bracket: grace_period *
\* reduction_factor^k = 1, 2, 4, ... up to max_t
RungLevels == {m \in 1 .. MaxEpochs : m \in {1, 2, 4, 8}}

NoRungs == [m \in RungLevels |-> [t \in Trials |-> NoReward]]

\* No search: a plain run is scheduled first in, first out
NoSearch ==
    /\ scheduler = "FIFO"
    /\ rungs = NoRungs

\* The class indices of the labels O, B, I
Classes == 0 .. 2

ZeroMatrix == [t \in Classes |-> [p \in Classes |-> 0]]

NoResults == [returned |-> FALSE]

\* evaluate_token_classification not called
EvalIdle ==
    /\ ev_pc = "idle"
    /\ ev_tokens = <<>>
    /\ ev_seen = {}
    /\ confusion = ZeroMatrix
    /\ ev_results = NoResults

\* _read_tsv_data not called
ReadIdle ==
    /\ rd_pc = "idle"
    /\ input_file = <<>>
    /\ fetch_limit = 1
    /\ rd_lines = <<>>

\* The training variables before any process has started
TrainIdle ==
    /\ pc = [p \in Procs |-> "start"]
    /\ epoch = [p \in Procs |-> 0]
    /\ batch_no = [p \in Procs |-> 0]
    /\ params = [p \in Procs |-> Pretrained]
    /\ requires_grad = [p \in Procs |-> [base |-> TRUE, head |-> TRUE]]
    /\ epoch_loss = [p \in Procs |-> "finite"]
    /\ train_accuracy = [p \in Procs |-> NoEpoch]
    /\ reports = [p \in Procs |-> <<>>]
    /\ storage = [d \in 1 .. MaxEpochs |-> NoFile]
    /\ saves = [p \in Procs |-> [e \in Epochs |-> 0]]
    /\ best = 0

\* No training configured: the aligner runs alone
NoTraining ==
    /\ num_trials = 0
    /\ num_workers = 0
    /\ num_epochs = 0
    /\ checkpoint_freq = 1
    /\ shard = NoShard
    /\ trial_status = [t \in Trials |-> "idle"]
    /\ TrainIdle

NoRecord == [words |-> <<>>, label_list |-> <<>>, none |-> TRUE]
NoResult == [returned |-> FALSE, tokenized_inputs |-> <<>>]
NoError == [type |-> "none", message |-> {}]

Labels == {"B", "I", "O"}

\* label_to_int dict
label_to_int(label) ==
    CASE label = "B" -> 0
      [] label = "I" -> 1
      [] label = "O" -> 2

\* the reserved ignore label
IGNORE == 0 - 100

\* special token ids of the BERT tokenizer
cls_token_id == 101
sep_token_id == 102
pad_token_id == 0

\* Most subwords the tokenizer yields for one word: enough for a single word
\* to overflow the content limit max_length - 2
MaxSub == max_length - 1

\* The vocabulary of (lower-cased) words: word w is one that the external
\* lemmatizer + tokenizer decompose into w subwords, w = 0 included.
Vocab == 0 .. MaxSub

\* tokenizer.tokenize(lemmatizer.lemmatize(word)): the subword tokens of a word
tokenize(word) == [s \in 1 .. word |-> <<word, s>>]

\* tokenizer.convert_tokens_to_ids: one integer id per subword token
convert_tokens_to_ids(word_tokens) ==
    [s \in 1 .. Len(word_tokens) |-> 1000 + 10 * word_tokens[s][1] + word_tokens[s][2]]

Min(a, b) == IF a < b THEN a ELSE b

\* [x] * n
Repeat(x, n) == [j \in 1 .. n |-> x]

\* seq[:n]
Take(seq, n) == SubSeq(seq, 1, Min(n, Len(seq)))

\* The word loop (for word, label in zip(words, label_list)), from word n on,
\* with the locals input_ids and aligned_labels; the result is the two locals
\* when the loop is left (exhausted or by break).
RECURSIVE WordLoop(_, _, _, _, _)
WordLoop(words, label_list, n, input_ids, aligned_labels) ==
    IF n > Min(Len(words), Len(label_list))
    THEN [input_ids |-> input_ids, aligned_labels |-> aligned_labels]
    ELSE LET word_tokens == tokenize(words[n])
             label == label_list[n]
         IN  IF Len(word_tokens) = 0
             THEN WordLoop(words, label_list, n + 1, input_ids, aligned_labels)
             ELSE LET ids1 == input_ids \o convert_tokens_to_ids(word_tokens)
                      lab1 == Append(aligned_labels, label_to_int(label))
                  IN  IF Len(ids1) > max_length - 2
                      THEN [input_ids |-> ids1, aligned_labels |-> lab1]
                      ELSE LET remaining_label == IF label = "B" THEN "I" ELSE label
                               lab2 == lab1 \o Repeat(label_to_int(remaining_label),
                                                      Len(word_tokens) - 1)
                           IN  WordLoop(words, label_list, n + 1, ids1, lab2)

\* A truncation that leaves the list as it is
Truncate_Off(seq) == seq

\* "Truncate if longer than max_length": seq[:max_length - 2]
Truncate(seq) == Take(seq, max_length - 2)

\* Truncation, markers and padding of one record's locals
Finalize(input_ids, aligned_labels) ==
    LET cut == Len(input_ids) > max_length - 2
        ids == IF cut THEN Truncate(input_ids) ELSE input_ids
        labs == IF cut THEN Truncate(aligned_labels) ELSE aligned_labels
        final_input_ids == <<cls_token_id>> \o ids \o <<sep_token_id>>
        final_labels == <<IGNORE>> \o labs \o <<IGNORE>>
        attention_mask == Repeat(1, Len(final_input_ids))
        padding_length == max_length - Len(final_input_ids)
    IN  IF padding_length > 0
        THEN [input_ids |-> final_input_ids \o Repeat(pad_token_id, padding_length),
              attention_mask |-> attention_mask \o Repeat(0, padding_length),
              labels |-> final_labels \o Repeat(IGNORE, padding_length)]
        ELSE [input_ids |-> final_input_ids,
              attention_mask |-> attention_mask,
              labels |-> final_labels]

\* The aligned example of one record whose counts match
AlignedExample(words, label_list) ==
    LET loc == WordLoop(words, label_list, 1, <<>>, <<>>)
    IN  Finalize(loc.input_ids, loc.aligned_labels)

\* The ValueError of a record whose counts differ (n_labels labels, n_words
\* words); message holds the values the f-string interpolates
Mismatch(n_labels, n_words) ==
    [type |-> "ValueError",
     message |-> {<<"labels", n_labels>>, <<"words", n_words>>}]

SeqsUpTo(S, n) == UNION {[1 .. m -> S] : m \in 0 .. n}

\* The records a parsed_file can hold: any word list with any label list
Records == [words : SeqsUpTo(Vocab, MaxWords), label_list : SeqsUpTo(Labels, MaxWords)]

\* A handler that records the mismatch and goes on to the next record
ProcessRecord_Skip(rec) ==
    IF Len(rec.label_list) # Len(rec.words)
    THEN /\ al_error' = Mismatch(Len(rec.label_list), Len(rec.words))
         /\ UNCHANGED <<al_pc, i, tokenized_inputs>>
    ELSE /\ tokenized_inputs' =
                Append(tokenized_inputs, AlignedExample(rec.words, rec.label_list))
         /\ i' = i + 1
         /\ UNCHANGED <<al_pc, al_error>>

\* The body of "for i, (label_str, sentence) in enumerate(parsed_file)" on
\* one record: the raise when the counts differ, else one more aligned example
ProcessRecord(rec) ==
    IF Len(rec.label_list) # Len(rec.words)
    THEN /\ al_pc' = "raised"
         /\ al_error' = Mismatch(Len(rec.label_list), Len(rec.words))
         /\ UNCHANGED <<i, tokenized_inputs>>
    ELSE /\ tokenized_inputs' =
                Append(tokenized_inputs, AlignedExample(rec.words, rec.label_list))
         /\ i' = i + 1
         /\ UNCHANGED <<al_pc, al_error>>

\* return {"tokenized_inputs": tokenized_inputs}
AlignReturn ==
    /\ al_pc = "loop"
    /\ al_pc' = "returned"
    /\ al_result' = [returned |-> TRUE, tokenized_inputs |-> tokenized_inputs]
    /\ UNCHANGED <<i, record, tokenized_inputs, al_error>>
    /\ UNCHANGED <<tr_vars, sc_vars, ev_vars, rd_vars>>

(***************************************************************************)
(* SpecAlign: the aligner called on one record, the record drawn from      *)
(* Records.                                                                *)
(***************************************************************************)
AlignInit ==
    /\ al_pc = "loop"
    /\ i = 0
    /\ record \in Records
    /\ tokenized_inputs = <<>>
    /\ al_result = NoResult
    /\ al_error = NoError
    /\ NoTraining
    /\ NoSearch
    /\ EvalIdle
    /\ ReadIdle

AlignOne ==
    /\ al_pc = "loop"
    /\ tokenized_inputs = <<>>
    /\ ProcessRecord(record)
    /\ UNCHANGED <<record, al_result>>
    /\ UNCHANGED <<tr_vars, sc_vars, ev_vars, rd_vars>>

AlignNext == AlignOne \/ AlignReturn

SpecAlign == AlignInit /\ [][AlignNext]_vars

(***************************************************************************)
(* SpecBatch: the aligner called on a batch of parsed_files, the records   *)
(* drawn one by one as the loops reach them.                               *)
(***************************************************************************)
\* The aligner before its first record, no record drawn
AlignIdle ==
    /\ al_pc = "loop"
    /\ i = 0
    /\ record = NoRecord
    /\ tokenized_inputs = <<>>
    /\ al_result = NoResult
    /\ al_error = NoError

BatchInit == AlignIdle /\ NoTraining /\ NoSearch /\ EvalIdle /\ ReadIdle

\* One pass of the record loop on a record whose counts match
AlignRecord ==
    /\ al_pc = "loop"
    /\ Len(tokenized_inputs) < MaxRecords
    /\ \E rec \in Records :
          /\ Len(rec.label_list) = Len(rec.words)
          /\ ProcessRecord(rec)
    /\ UNCHANGED <<record, al_result>>
    /\ UNCHANGED <<tr_vars, sc_vars, ev_vars, rd_vars>>

\* One pass of the record loop on a record whose counts differ; the check
\* reads the two counts only
RaiseMismatch ==
    /\ al_pc = "loop"
    /\ \E n_labels \in 0 .. MaxWords, n_words \in 0 .. MaxWords :
          /\ n_labels # n_words
          /\ ProcessRecord([words |-> Repeat(1, n_words),
                            label_list |-> Repeat("O", n_labels)])
    /\ UNCHANGED <<record, al_result>>
    /\ UNCHANGED <<tr_vars, sc_vars, ev_vars, rd_vars>>

\* "for parsed_file in parsed_files": the next parsed_file restarts enumerate
NextFile ==
    /\ al_pc = "loop"
    /\ i > 0
    /\ i' = 0
    /\ UNCHANGED <<al_pc, record, tokenized_inputs, al_result, al_error>>
    /\ UNCHANGED <<tr_vars, sc_vars, ev_vars, rd_vars>>

BatchNext == AlignRecord \/ RaiseMismatch \/ NextFile \/ AlignReturn

SpecBatch == BatchInit /\ [][BatchNext]_vars

(***************************************************************************)
(* Properties of the aligner                                               *)
(***************************************************************************)
\* The example made from `record` in SpecAlign
TheExample == tokenized_inputs[1]

Aligned == al_pc # "raised" /\ Len(tokenized_inputs) = 1

\* All subword ids of a word list, in order, words of zero subwords skipped
RECURSIVE AllSubwordIds(_)
AllSubwordIds(words) ==
    IF words = <<>> THEN <<>>
    ELSE convert_tokens_to_ids(tokenize(Head(words))) \o AllSubwordIds(Tail(words))

\* The labels the continuation rule gives the k subwords of one word
ContinuationLabels(label, k) ==
    IF k = 0 THEN <<>>
    ELSE <<label_to_int(label)>>
         \o Repeat(IF label = "B" THEN label_to_int("I") ELSE label_to_int(label), k - 1)

\* The labels the continuation rule gives all subwords of a record
RECURSIVE RuleLabels(_, _)
RuleLabels(words, label_list) ==
    IF words = <<>> \/ label_list = <<>> THEN <<>>
    ELSE ContinuationLabels(Head(label_list), Len(tokenize(Head(words))))
         \o RuleLabels(Tail(words), Tail(label_list))

\* Index of the end marker in input_ids (token ids are never the marker's id)
SepAt(e) == CHOOSE p \in 2 .. Len(e.input_ids) :
                /\ e.input_ids[p] = sep_token_id
                /\ \A q \in 2 .. p - 1 : e.input_ids[q] # sep_token_id

\* The content of an example: the token ids between the two markers
Content(e) == SubSeq(e.input_ids, 2, SepAt(e) - 1)

\* C1: every aligned example has input_ids, attention_mask and labels of
\* length max_length, truncated records included.
C1_AllLengthsMaxLength ==
    \A n \in 1 .. Len(tokenized_inputs) :
        /\ Len(tokenized_inputs[n].input_ids) = max_length
        /\ Len(tokenized_inputs[n].attention_mask) = max_length
        /\ Len(tokenized_inputs[n].labels) = max_length

\* C2: every subword kept in the content carries the label of the
\* continuation rule: the word's own label on its first subword, and on each
\* further one I if the word is labelled B, else the word's label; also for
\* the word being processed when the length limit is reached.
C2_ContinuationRule ==
    Aligned =>
        LET rule == RuleLabels(record.words, record.label_list)
        IN  \A j \in 1 .. Len(Content(TheExample)) :
                /\ j + 1 <= Len(TheExample.labels)
                /\ TheExample.labels[j + 1] = rule[j]

\* C3: a record with more than max_length - 2 subwords gives a content of
\* exactly max_length - 2 token ids; the content never exceeds max_length - 2
\* nor any of the three lists max_length; and the content is the longest
\* fitting prefix of the record's subwords, the in-progress word's included.
C3_Truncation ==
    Aligned =>
        LET all == AllSubwordIds(record.words)
        IN  /\ Len(all) > max_length - 2 => Len(Content(TheExample)) = max_length - 2
            /\ Len(Content(TheExample)) <= max_length - 2
            /\ Len(TheExample.input_ids) <= max_length
            /\ Len(TheExample.attention_mask) <= max_length
            /\ Len(TheExample.labels) <= max_length
            /\ Content(TheExample) = Take(all, max_length - 2)

\* C3 witness: a truncated record whose last kept subword is a non-final
\* subword of the in-progress word, after a whole earlier word
C3_Witness ==
    /\ Aligned
    /\ Len(record.words) = 2
    /\ record.words[1] >= 1
    /\ record.words[1] < max_length - 2
    /\ record.words[1] + record.words[2] > max_length - 2

\* C4: a record whose counts differ makes the call raise an error that names
\* the index of the record, and the call produces nothing.
C4_ErrorNamesRecordIndex ==
    al_pc = "raised" =>
        /\ al_error.type = "ValueError"
        /\ <<"index", i>> \in al_error.message
        /\ al_result = NoResult

\* C5 as stated: when a record's counts differ, the examples of the valid
\* records of the batch are still produced.
C5_ValidRecordsSurvive ==
    (al_error # NoError /\ Len(tokenized_inputs) > 0) =>
        (al_result.returned /\ al_result.tokenized_inputs = tokenized_inputs)

\* C5 amended: a record whose counts differ is fatal to the whole call: the
\* call raises and returns nothing, the examples of the valid records before
\* it included.
C5_MismatchAbortsCall ==
    al_error # NoError => (al_pc = "raised" /\ al_result = NoResult)

\* C5 witness: the raise comes after a valid record was aligned
C5_Witness == al_pc = "raised" /\ Len(tokenized_inputs) > 0

(***************************************************************************)
(* train_loop_per_worker                                                   *)
(***************************************************************************)
Rank(p) == p[2]

Max(S) == CHOOSE x \in S : \A y \in S : y <= x

\* Workers that go on whatever became of their trial
Running_Always(p) == p \in Active

Running(p) == p \in Active /\ trial_status[p[1]] = "running"

\* len(train_dataloader) of a worker
NBatches(p) == shard

\* The workers of the trial of p
Peers(p) == {q \in Active : q[1] = p[1]}

\* One directory for the checkpoints of every epoch
CheckpointDir_Fixed(ep) == 1

\* os.path.join(config["checkpoint_dir"], f"epoch_{epoch + 1}"): the
\* directory of a checkpoint, within the one checkpoint_dir of train_config
CheckpointDir(ep) == ep + 1

\* A guard that checkpoints in every worker
IsCheckpointEpoch_AnyRank(rank, ep) == ep % checkpoint_freq = 0

\* A guard that checkpoints in every epoch
IsCheckpointEpoch_AnyEpoch(rank, ep) == rank = 0

\* get_world_rank() == 0 and (epoch % config["checkpoint_freq"]) == 0
IsCheckpointEpoch(rank, ep) == rank = 0 /\ ep % checkpoint_freq = 0

\* [p for p in model.parameters() if p.requires_grad]: the parameter groups
\* handed to AdamW
OptimizerParams(p) == {g \in {"base", "head"} : requires_grad[p][g]}

\* optimizer.step() after loss.backward(): every group of the optimizer
\* changes; a non-finite loss makes the stepped parameters non-finite
OptimizerStep(p, loss_finite) ==
    [base |-> IF "base" \in OptimizerParams(p) THEN params[p].base + 1 ELSE params[p].base,
     head |-> IF "head" \in OptimizerParams(p) THEN params[p].head + 1 ELSE params[p].head,
     finite |-> params[p].finite /\ loss_finite]

\* model.state_dict() as torch.save writes it; owner is the trial that wrote
StateDict(p) == [base |-> params[p].base, head |-> params[p].head,
                 finite |-> params[p].finite, owner |-> p[1]]

\* A worker exception: TorchTrainer.fit fails and with it the trial
FailWorker(p) ==
    /\ pc' = [pc EXCEPT ![p] = "failed"]
    /\ trial_status' = [trial_status EXCEPT ![p[1]] = "failed"]

\* A start that goes on to the training loop without the shard
StartNoShard_Proceed(p) ==
    /\ Running(p)
    /\ pc[p] = "start"
    /\ shard = NoShard
    /\ pc' = [pc EXCEPT ![p] = "train"]
    /\ UNCHANGED <<num_trials, num_workers, num_epochs, checkpoint_freq, shard,
                   trial_status, epoch, batch_no, params, requires_grad, epoch_loss,
                   train_accuracy, reports, storage, saves, best>>
    /\ UNCHANGED <<al_vars, sc_vars, ev_vars, rd_vars>>

\* Lines 612-623 with a shard missing: the ValueError of line 623
StartNoShard(p) ==
    /\ Running(p)
    /\ pc[p] = "start"
    /\ shard = NoShard
    /\ FailWorker(p)
    /\ UNCHANGED <<num_trials, num_workers, num_epochs, checkpoint_freq, shard, epoch,
                   batch_no, params, requires_grad, epoch_loss, train_accuracy,
                   reports, storage, saves, best>>
    /\ UNCHANGED <<al_vars, sc_vars, ev_vars, rd_vars>>

\* Lines 612-644 with both shards present: the examples are read, the model is
\* loaded (every parameter trainable, as from_pretrained returns it), the
\* DataLoader, optimizer and scheduler are built.  The random sampler of
\* DataLoader(shuffle=True) may reject an empty dataset (line 635).
StartWorker(p) ==
    /\ Running(p)
    /\ pc[p] = "start"
    /\ shard # NoShard
    /\ \/ /\ NBatches(p) = 0
          /\ FailWorker(p)
       \/ /\ pc' = [pc EXCEPT ![p] = IF NBatches(p) = 0 THEN "evaluate" ELSE "train"]
          /\ UNCHANGED trial_status
    /\ params' = [params EXCEPT ![p] = Pretrained]
    /\ requires_grad' = [requires_grad EXCEPT ![p] = [base |-> TRUE, head |-> TRUE]]
    /\ epoch' = [epoch EXCEPT ![p] = 0]
    /\ batch_no' = [batch_no EXCEPT ![p] = 0]
    /\ epoch_loss' = [epoch_loss EXCEPT ![p] = "finite"]
    /\ UNCHANGED <<num_trials, num_workers, num_epochs, checkpoint_freq, shard,
                   train_accuracy, reports, storage, saves, best>>
    /\ UNCHANGED <<al_vars, sc_vars, ev_vars, rd_vars>>

\* ray.train.report is a barrier: it returns in a worker once every worker
\* of the run has made the report of that epoch
ReportReturned(p) == \A q \in Peers(p) : Len(reports[q]) >= epoch[p]

\* One pass of "for batch in train_dataloader": forward, backward,
\* optimizer.step(), scheduler.step(), epoch_loss += loss.item()
TrainStep(p) ==
    /\ Running(p)
    /\ pc[p] = "train"
    /\ ReportReturned(p)
    /\ batch_no[p] < NBatches(p)
    /\ \E loss_finite \in BOOLEAN :
          /\ params[p].finite \/ ~loss_finite
          /\ params' = [params EXCEPT ![p] = OptimizerStep(p, loss_finite)]
          /\ epoch_loss' = [epoch_loss EXCEPT ![p] =
                               IF loss_finite THEN epoch_loss[p] ELSE "nan"]
    /\ batch_no' = [batch_no EXCEPT ![p] = batch_no[p] + 1]
    /\ pc' = [pc EXCEPT ![p] = IF batch_no[p] + 1 = NBatches(p) THEN "evaluate" ELSE "train"]
    /\ UNCHANGED <<num_trials, num_workers, num_epochs, checkpoint_freq, shard,
                   trial_status, epoch, requires_grad, train_accuracy, reports,
                   storage, saves, best>>
    /\ UNCHANGED <<al_vars, sc_vars, ev_vars, rd_vars>>

\* An evaluation whose average loss is 0 over an empty loader
EvaluateTrain_NoDivision(p) ==
    /\ Running(p)
    /\ pc[p] = "evaluate"
    /\ train_accuracy' = [train_accuracy EXCEPT ![p] = epoch[p]]
    /\ pc' = [pc EXCEPT ![p] = IF IsCheckpointEpoch(Rank(p), epoch[p])
                               THEN "save" ELSE "report_loss"]
    /\ UNCHANGED <<num_trials, num_workers, num_epochs, checkpoint_freq, shard,
                   trial_status, epoch, batch_no, params, requires_grad, epoch_loss,
                   reports, storage, saves, best>>
    /\ UNCHANGED <<al_vars, sc_vars, ev_vars, rd_vars>>

\* Lines 667-671: train accuracy, avg_loss (a division by len(train_dataloader))
\* and the branch on rank and cadence
EvaluateTrain(p) ==
    /\ Running(p)
    /\ pc[p] = "evaluate"
    /\ IF NBatches(p) = 0
       THEN /\ FailWorker(p)
            /\ UNCHANGED train_accuracy
       ELSE /\ train_accuracy' = [train_accuracy EXCEPT ![p] = epoch[p]]
            /\ pc' = [pc EXCEPT ![p] = IF IsCheckpointEpoch(Rank(p), epoch[p])
                                       THEN "save" ELSE "report_loss"]
            /\ UNCHANGED trial_status
    /\ UNCHANGED <<num_trials, num_workers, num_epochs, checkpoint_freq, shard, epoch,
                   batch_no, params, requires_grad, epoch_loss, reports, storage,
                   saves, best>>
    /\ UNCHANGED <<al_vars, sc_vars, ev_vars, rd_vars>>

\* Lines 672-675: makedirs, torch.save(model.state_dict(), .../model.pt),
\* Checkpoint.from_directory
SaveCheckpoint(p) ==
    /\ Running(p)
    /\ pc[p] = "save"
    /\ storage' = [storage EXCEPT ![CheckpointDir(epoch[p])] = StateDict(p)]
    /\ saves' = [saves EXCEPT ![p][epoch[p]] = saves[p][epoch[p]] + 1]
    /\ pc' = [pc EXCEPT ![p] = "eval_val"]
    /\ UNCHANGED <<num_trials, num_workers, num_epochs, checkpoint_freq, shard,
                   trial_status, epoch, batch_no, params, requires_grad, epoch_loss,
                   train_accuracy, reports, best>>
    /\ UNCHANGED <<al_vars, sc_vars, ev_vars, rd_vars>>

\* A loop over the epochs that does not end
NextEpoch_NoEnd(p) ==
    /\ epoch' = [epoch EXCEPT ![p] = epoch[p] + 1]
    /\ batch_no' = [batch_no EXCEPT ![p] = 0]
    /\ epoch_loss' = [epoch_loss EXCEPT ![p] = "finite"]
    /\ pc' = [pc EXCEPT ![p] = "train"]

\* A loop that leaves out every second epoch
NextEpoch_Skip(p) ==
    /\ epoch' = [epoch EXCEPT ![p] = epoch[p] + 2]
    /\ batch_no' = [batch_no EXCEPT ![p] = 0]
    /\ epoch_loss' = [epoch_loss EXCEPT ![p] = "finite"]
    /\ pc' = [pc EXCEPT ![p] = IF epoch[p] + 2 < num_epochs THEN "train" ELSE "done"]

\* The end of one pass of "for epoch in range(epochs)"
NextEpoch(p) ==
    /\ epoch' = [epoch EXCEPT ![p] = epoch[p] + 1]
    /\ batch_no' = [batch_no EXCEPT ![p] = 0]
    /\ epoch_loss' = [epoch_loss EXCEPT ![p] = "finite"]
    /\ pc' = [pc EXCEPT ![p] = IF epoch[p] + 1 < num_epochs THEN "train" ELSE "done"]

\* ASHAScheduler(max_t=train_config["num_epochs"], grace_period=1,
\* reduction_factor=2, metric="val_accuracy", mode="max")
grace_period == 1
reduction_factor == 2

\* The rungs of the bracket: the milestones grace_period *
\* reduction_factor^k up to max_t
Milestones == {m \in RungLevels : m <= num_epochs}

\* The trials with a result recorded in the rung of milestone m
Recorded(m) == {u \in Trials : rungs[m][u] # NoReward}

\* The cutoff of a rung: the (1 - 1/reduction_factor) percentile of the
\* recorded results, their median.  A trial is not in the rung it arrives at,
\* so the results are those of the num_samples - 1 = 1 other trial
Cutoff(m) == rungs[m][CHOOSE u \in Recorded(m) : TRUE]

\* The rung a result of trial t at iteration cur_iter is recorded in: the
\* highest one reached that does not hold the trial yet, 0 if none
TargetRung(t, cur_iter) ==
    LET open == {m \in Milestones : cur_iter >= m /\ rungs[m][t] = NoReward}
    IN  IF open = {} THEN 0 ELSE Max(open)

\* on_trial_result for a result that carries val_accuracy: STOP at max_t,
\* else STOP when the result is below the cutoff of the rung it enters
Decision(t, cur_iter, cur_rew) ==
    LET m == TargetRung(t, cur_iter)
    IN  IF cur_iter >= num_epochs THEN "STOP"
        ELSE IF m # 0 /\ Recorded(m) # {} /\ cur_rew < Cutoff(m) THEN "STOP"
        ELSE "CONTINUE"

\* The rungs after that result
RecordResult(t, cur_iter, cur_rew) ==
    LET m == TargetRung(t, cur_iter)
    IN  IF cur_iter < num_epochs /\ m # 0
        THEN [rungs EXCEPT ![m][t] = cur_rew]
        ELSE rungs

\* Lines 677-681: the validation accuracy, then
\* ray.train.report(metrics, checkpoint=checkpoint); the report persists the
\* files the checkpoint directory holds at that time.  In a search the
\* scheduler sees the result before the report returns: a trial it stops
\* short of max_t is pruned (at max_t the loop is at its end anyway)
ReportCheckpoint(p) ==
    /\ Running(p)
    /\ pc[p] = "eval_val"
    /\ \E val_accuracy \in 0 .. MaxAcc :
          /\ reports' = [reports EXCEPT ![p] = Append(reports[p],
                 [epoch |-> epoch[p],
                  metrics |-> [loss |-> epoch_loss[p],
                               val_accuracy |-> val_accuracy,
                               train_accuracy |-> train_accuracy[p]],
                  checkpoint |-> [path |-> CheckpointDir(epoch[p]),
                                  model |-> storage[CheckpointDir(epoch[p])]]])]
          /\ IF scheduler = "ASHA"
             THEN /\ rungs' = RecordResult(p[1], epoch[p] + 1, val_accuracy)
                  /\ trial_status' =
                        IF /\ Decision(p[1], epoch[p] + 1, val_accuracy) = "STOP"
                           /\ epoch[p] + 1 < num_epochs
                        THEN [trial_status EXCEPT ![p[1]] = "pruned"]
                        ELSE trial_status
             ELSE UNCHANGED <<rungs, trial_status>>
    /\ NextEpoch(p)
    /\ UNCHANGED <<num_trials, num_workers, num_epochs, checkpoint_freq, shard,
                   params, requires_grad, train_accuracy, storage, saves, best>>
    /\ UNCHANGED <<al_vars, scheduler, ev_vars, rd_vars>>

\* A worker dies in a training step (an exception of the forward or backward
\* pass, the process killed): nothing in the loop catches it
WorkerCrash(p) ==
    /\ Running(p)
    /\ pc[p] = "train"
    /\ FailWorker(p)
    /\ UNCHANGED <<num_trials, num_workers, num_epochs, checkpoint_freq, shard, epoch,
                   batch_no, params, requires_grad, epoch_loss, train_accuracy,
                   reports, storage, saves, best>>
    /\ UNCHANGED <<al_vars, sc_vars, ev_vars, rd_vars>>

\* Line 683: ray.train.report({"loss": avg_loss})
ReportLoss(p) ==
    /\ Running(p)
    /\ pc[p] = "report_loss"
    /\ reports' = [reports EXCEPT ![p] = Append(reports[p],
          [epoch |-> epoch[p],
           metrics |-> [loss |-> epoch_loss[p]],
           checkpoint |-> NoCheckpoint])]
    /\ NextEpoch(p)
    /\ UNCHANGED <<num_trials, num_workers, num_epochs, checkpoint_freq, shard,
                   trial_status, params, requires_grad, train_accuracy, storage, saves,
                   best>>
    /\ UNCHANGED <<al_vars, sc_vars, ev_vars, rd_vars>>

\* trainer.fit() returns once every worker has left train_loop_per_worker
FinishTrial(t) ==
    /\ t <= num_trials
    /\ trial_status[t] = "running"
    /\ \A p \in Active : p[1] = t => pc[p] = "done"
    /\ trial_status' = [trial_status EXCEPT ![t] = "completed"]
    /\ UNCHANGED <<num_trials, num_workers, num_epochs, checkpoint_freq, shard, pc,
                   epoch, batch_no, params, requires_grad, epoch_loss, train_accuracy,
                   reports, storage, saves, best>>
    /\ UNCHANGED <<al_vars, sc_vars, ev_vars, rd_vars>>

(***************************************************************************)
(* SpecTrain: one trainer.fit() with 1 .. MaxWorkers workers               *)
(***************************************************************************)
TrainInit ==
    /\ AlignIdle
    /\ EvalIdle
    /\ ReadIdle
    /\ NoSearch
    /\ num_trials = 1
    /\ num_workers \in 1 .. MaxWorkers
    /\ num_epochs \in 1 .. MaxEpochs
    /\ checkpoint_freq \in 1 .. MaxFreq
    /\ shard \in Shards
    /\ trial_status = [t \in Trials |-> IF t = 1 THEN "running" ELSE "idle"]
    /\ TrainIdle

WorkerNext(p) ==
    \/ StartNoShard(p)
    \/ StartWorker(p)
    \/ TrainStep(p)
    \/ EvaluateTrain(p)
    \/ SaveCheckpoint(p)
    \/ ReportCheckpoint(p)
    \/ ReportLoss(p)

TrainNext ==
    \/ \E p \in Procs : WorkerNext(p)
    \/ \E t \in Trials : FinishTrial(t)

SpecTrain == TrainInit /\ [][TrainNext]_vars

(***************************************************************************)
(* tune_learning_rate                                                      *)
(***************************************************************************)
\* The reports of a trial as the tuner sees them: those of its rank 0 worker
TrialReports(t) == reports[<<t, 0>>]

\* The reports of a trial that carry val_accuracy
ValReports(t) ==
    {n \in 1 .. Len(TrialReports(t)) : "val_accuracy" \in DOMAIN TrialReports(t)[n].metrics}

HasVal(t) == ValReports(t) # {}

\* The last val_accuracy a trial reported (scope "last")
LastVal(t) == TrialReports(t)[Max(ValReports(t))].metrics.val_accuracy

\* The last checkpoint a trial reported (Result.checkpoint)
LastCheckpoint(t) == TrialReports(t)[Max(ValReports(t))].checkpoint

\* final_checkpoint = results.checkpoint of the run of trainer.fit(): the
\* checkpoint of the last report that carried one
FinalCheckpoint == LastCheckpoint(1)

\* Lines 868-873: tuner.fit() has ended every trial;
\* get_best_result(metric="val_accuracy", mode="max") picks a trial of the
\* largest last val_accuracy among the trials that reported one
Select ==
    /\ best = 0
    /\ num_trials >= 1
    /\ \A t \in 1 .. num_trials : trial_status[t] \in {"completed", "failed", "pruned"}
    /\ \E t \in 1 .. num_trials :
          /\ HasVal(t)
          /\ \A u \in 1 .. num_trials : HasVal(u) => LastVal(u) <= LastVal(t)
          /\ best' = t
    /\ UNCHANGED <<num_trials, num_workers, num_epochs, checkpoint_freq, shard,
                   trial_status, pc, epoch, batch_no, params, requires_grad,
                   epoch_loss, train_accuracy, reports, storage, saves>>
    /\ UNCHANGED <<al_vars, sc_vars, ev_vars, rd_vars>>

(***************************************************************************)
(* SpecTune: tune_learning_rate(num_samples): num_samples trials, each a   *)
(* TorchTrainer of scaling_config over the same base_config and datasets,  *)
(* run concurrently                                                        *)
(***************************************************************************)
TuneInit ==
    /\ AlignIdle
    /\ EvalIdle
    /\ ReadIdle
    /\ scheduler = "ASHA"
    /\ rungs = NoRungs
    /\ num_trials = num_samples
    /\ num_workers = scaling_num_workers
    /\ num_epochs \in 1 .. MaxEpochs
    /\ checkpoint_freq \in 1 .. MaxFreq
    /\ shard \in Shards
    /\ trial_status = [t \in Trials |-> "running"]
    /\ TrainIdle

TuneNext ==
    \/ \E p \in Procs : WorkerNext(p)
    \/ \E p \in Procs : WorkerCrash(p)
    \/ \E t \in Trials : FinishTrial(t)
    \/ Select

SpecTune == TuneInit /\ [][TuneNext]_vars

(***************************************************************************)
(* SpecSearch: tune_learning_rate(num_samples=2) as the notebook calls it, *)
(* over train_config as the notebook sets it                               *)
(***************************************************************************)
\* train_config: "num_epochs": 2, "checkpoint_freq": 1
train_num_epochs == 2
train_checkpoint_freq == 1

SearchInit ==
    /\ AlignIdle
    /\ EvalIdle
    /\ ReadIdle
    /\ scheduler = "ASHA"
    /\ rungs = NoRungs
    /\ num_trials = num_samples
    /\ num_workers = scaling_num_workers
    /\ num_epochs = train_num_epochs
    /\ checkpoint_freq = train_checkpoint_freq
    /\ shard \in 1 .. MaxBatches
    /\ trial_status = [t \in Trials |-> "running"]
    /\ TrainIdle

SearchNext ==
    \/ \E p \in Procs : StartWorker(p)
    \/ \E p \in Procs : TrainStep(p)
    \/ \E p \in Procs : EvaluateTrain(p)
    \/ \E p \in Procs : SaveCheckpoint(p)
    \/ \E p \in Procs : ReportCheckpoint(p)
    \/ \E p \in Procs : WorkerCrash(p)
    \/ \E t \in Trials : FinishTrial(t)
    \/ Select

SpecSearch == SearchInit /\ [][SearchNext]_vars

(***************************************************************************)
(* Properties of the training loop and the search                          *)
(***************************************************************************)
\* The reports of process p, as a set of indices
ReportIdx(p) == 1 .. Len(reports[p])

HasCheckpoint(r) == r.checkpoint # NoCheckpoint

\* C6: in every epoch of a run at most one checkpoint is created over all
\* workers; only the worker of world rank 0 creates (and reports) one, and
\* only in an epoch with epoch mod checkpoint_freq = 0.
C6_CheckpointOwnership ==
    \A p \in Procs :
        /\ \A e \in Epochs :
              /\ saves[p][e] <= 1
              /\ saves[p][e] > 0 => (Rank(p) = 0 /\ e % checkpoint_freq = 0)
        /\ \A n \in ReportIdx(p) :
              HasCheckpoint(reports[p][n]) =>
                  (Rank(p) = 0 /\ reports[p][n].epoch % checkpoint_freq = 0)

\* C6 witness: two workers have both reported a cadence epoch and exactly the
\* rank 0 worker created its checkpoint
C6_Witness ==
    /\ num_workers = 2
    /\ Len(reports[<<1, 0>>]) >= 1
    /\ Len(reports[<<1, 1>>]) >= 1
    /\ saves[<<1, 0>>][0] = 1
    /\ saves[<<1, 1>>][0] = 0

\* C7: the checkpoint a trial reports holds parameters that the same trial
\* produced, whatever the interleaving of the trials.
C7_TrialIsolation ==
    \A t \in Trials : \A n \in ReportIdx(<<t, 0>>) :
        HasCheckpoint(reports[<<t, 0>>][n]) =>
            reports[<<t, 0>>][n].checkpoint.model.owner = t

\* C8: a worker has made exactly one report for each epoch it finished, in
\* epoch order; every report carries loss; val_accuracy, train_accuracy and a
\* checkpoint come only in an epoch with epoch mod checkpoint_freq = 0, and
\* the report of any other epoch carries loss alone and no checkpoint.
C8_ReportStream ==
    \A p \in Active :
        /\ Len(reports[p]) = epoch[p]
        /\ pc[p] = "done" => Len(reports[p]) = num_epochs
        /\ \A n \in ReportIdx(p) :
              LET r == reports[p][n]
              IN  /\ r.epoch = n - 1
                  /\ "loss" \in DOMAIN r.metrics
                  /\ DOMAIN r.metrics \subseteq {"loss", "val_accuracy", "train_accuracy"}
                  /\ (DOMAIN r.metrics # {"loss"} \/ HasCheckpoint(r)) =>
                         r.epoch % checkpoint_freq = 0
                  /\ r.epoch % checkpoint_freq # 0 =>
                         (DOMAIN r.metrics = {"loss"} /\ ~HasCheckpoint(r))

\* C8 witness: the rank 0 worker is done after a cadence epoch, reported with
\* accuracies and checkpoint, and an off-cadence epoch, reported with loss alone
C8_Witness ==
    /\ pc[<<1, 0>>] = "done"
    /\ checkpoint_freq = 2
    /\ Len(reports[<<1, 0>>]) = 2
    /\ DOMAIN reports[<<1, 0>>][1].metrics = {"loss", "val_accuracy", "train_accuracy"}
    /\ HasCheckpoint(reports[<<1, 0>>][1])
    /\ DOMAIN reports[<<1, 0>>][2].metrics = {"loss"}

\* C9: once the loss of a training step of a worker was non-finite, the
\* worker has stopped, its trial is failed, and the search never picks the
\* trial as best.
C9_NonFiniteLossIsFatal ==
    \A p \in Active :
        ~params[p].finite =>
            /\ pc[p] = "failed"
            /\ trial_status[p[1]] = "failed"
            /\ best # p[1]

\* C10: no optimizer step of a worker changes the base-encoder parameters:
\* they stay the pretrained ones.
C10_BaseEncoderFrozen ==
    \A p \in Active : params[p].base = Pretrained.base

\* The worker p has done nothing that can be observed: no training step, no
\* report, no checkpoint
NothingDone(p) ==
    /\ params[p] = Pretrained
    /\ batch_no[p] = 0
    /\ reports[p] = <<>>
    /\ \A e \in Epochs : saves[p][e] = 0

\* C11: with the train or the validation shard None, a worker does nothing
\* but fail: it never enters the training loop, makes no training step, emits
\* no report and creates no checkpoint.
C11_AbsentShardFailsFirst ==
    shard = NoShard =>
        /\ \A p \in Active : pc[p] \in {"start", "failed"} /\ NothingDone(p)
        /\ \A d \in DOMAIN storage : storage[d] = NoFile
        /\ \A t \in 1 .. num_trials : trial_status[t] \in {"running", "failed"}

\* C11 witness: a worker handed None has failed, and its run with it
C11_Witness ==
    /\ shard = NoShard
    /\ pc[<<1, 0>>] = "failed"
    /\ trial_status[1] = "failed"

\* The last epoch of the run that matches the cadence
LatestCadenceEpoch ==
    Max({e \in 0 .. num_epochs - 1 : e % checkpoint_freq = 0})

\* C12: within one run, the checkpoint of a cadence epoch lies in a directory
\* keyed by that epoch and used by no other epoch, what it holds is the model
\* as that epoch left it and stays so whatever is saved later, and the
\* checkpoint retrieved after the run is that of the latest cadence epoch.
C12_CheckpointHistory ==
    /\ \A p \in Active : \A n \in ReportIdx(p) :
          LET r == reports[p][n]
          IN  HasCheckpoint(r) =>
                 /\ r.checkpoint.path = CheckpointDir(r.epoch)
                 /\ \A m \in ReportIdx(p) :
                       (m # n /\ HasCheckpoint(reports[p][m])) =>
                           reports[p][m].checkpoint.path # r.checkpoint.path
                 /\ r.checkpoint.model.head = (r.epoch + 1) * shard
                 /\ storage[r.checkpoint.path] = r.checkpoint.model
    /\ pc[<<1, 0>>] = "done" =>
          /\ FinalCheckpoint.path = CheckpointDir(LatestCadenceEpoch)
          /\ FinalCheckpoint.model.head = (LatestCadenceEpoch + 1) * shard

\* C12 witness: a finished run of two cadence epochs, both checkpoints kept
C12_Witness ==
    /\ pc[<<1, 0>>] = "done"
    /\ num_epochs = 2
    /\ checkpoint_freq = 1
    /\ shard = 1
    /\ HasCheckpoint(reports[<<1, 0>>][1])
    /\ HasCheckpoint(reports[<<1, 0>>][2])
    /\ storage[1].head = 1
    /\ storage[2].head = 2

\* C13: a checkpoint that exists in the checkpoint storage location has its
\* metrics (loss, train_accuracy, val_accuracy) attached: a report carries it.
C13_PersistedHasMetrics ==
    \A d \in DOMAIN storage :
        storage[d] # NoFile =>
            \E p \in Active : \E n \in ReportIdx(p) :
                /\ reports[p][n].checkpoint.path = d
                /\ {"loss", "train_accuracy", "val_accuracy"} \subseteq
                       DOMAIN reports[p][n].metrics

TokenPairs == (Classes \cup {IGNORE}) \X Classes

\* A position of an example: <<true_label, pred_label, attention_mask>>
Positions == {<<tp[1], tp[2], m>> : tp \in TokenPairs, m \in {0, 1}}

\* A selection that keeps every position
UnderMask_All(tok) == TRUE

\* mask = attention_mask[i].bool(); preds[i][mask], labels[i][mask]: the
\* position is among the tokens the inner loop goes through
UnderMask(tok) == tok[3] = 1

\* An accumulation that sets the cell instead of adding to it
AddToken_Overwrite(conf, tok) ==
    IF tok[1] = IGNORE \/ tok[2] = IGNORE
    THEN conf
    ELSE [conf EXCEPT ![tok[1]][tok[2]] = 1]

\* if not (true_label == -100 or pred_label == -100):
\*     confusion[true_label, pred_label] += 1
AddToken(conf, tok) ==
    IF tok[1] = IGNORE \/ tok[2] = IGNORE
    THEN conf
    ELSE [conf EXCEPT ![tok[1]][tok[2]] = @ + 1]

\* What one position of an example does to the matrix
CountToken(conf, tok) == IF UnderMask(tok) THEN AddToken(conf, tok) ELSE conf

SumOver(f) == f[0] + f[1] + f[2]

\* confusion.sum()
Total(conf) == SumOver([t \in Classes |-> SumOver(conf[t])])

\* confusion.diag().sum()
DiagSum(conf) == SumOver([c \in Classes |-> conf[c][c]])

\* confusion[class_idx, :].sum() and confusion[:, class_idx].sum()
RowSum(conf, c) == SumOver(conf[c])
ColSum(conf, c) == SumOver([t \in Classes |-> conf[t][c]])

\* Python numbers as fractions <<numerator, denominator>>; a division by
\* zero raises ZeroDivisionError, kept as the value of denominator 0
Number(n) == <<n, 1>>
Zero == Number(0)
DivisionError == <<0, 0>>
IsNumber(x) == x[2] > 0
Plus(x, y) == <<x[1] * y[2] + y[1] * x[2], x[2] * y[2]>>
Times(x, y) == <<x[1] * y[1], x[2] * y[2]>>
Divide(x, y) ==
    IF y[1] = 0 \/ ~IsNumber(x) \/ ~IsNumber(y)
    THEN DivisionError
    ELSE <<x[1] * y[2], x[2] * y[1]>>
Positive(x) == IsNumber(x) /\ x[1] > 0

\* An accuracy computed without the test of the total
Accuracy_Unguarded(conf) == Divide(Number(DiagSum(conf)), Number(Total(conf)))

\* accuracy = correct_predictions / total_samples if total_samples > 0 else 0
Accuracy(conf) ==
    IF Total(conf) > 0
    THEN Divide(Number(DiagSum(conf)), Number(Total(conf)))
    ELSE Zero

\* Class metrics computed without the tests of the denominators
ClassMetrics_Unguarded(conf, class_idx) ==
    LET true_positives == conf[class_idx][class_idx]
        false_positives == ColSum(conf, class_idx) - true_positives
        false_negatives == RowSum(conf, class_idx) - true_positives
        precision == Divide(Number(true_positives),
                            Number(true_positives + false_positives))
        recall == Divide(Number(true_positives),
                         Number(true_positives + false_negatives))
        f1 == Divide(Times(Number(2), Times(precision, recall)), Plus(precision, recall))
    IN  [precision |-> precision, recall |-> recall, f1 |-> f1]

\* The body of "for class_idx in range(3)"
ClassMetrics(conf, class_idx) ==
    LET true_positives == conf[class_idx][class_idx]
        false_positives == ColSum(conf, class_idx) - true_positives
        false_negatives == RowSum(conf, class_idx) - true_positives
        precision == IF true_positives + false_positives > 0
                     THEN Divide(Number(true_positives),
                                 Number(true_positives + false_positives))
                     ELSE Zero
        recall == IF true_positives + false_negatives > 0
                  THEN Divide(Number(true_positives),
                              Number(true_positives + false_negatives))
                  ELSE Zero
        f1 == IF Positive(Plus(precision, recall))
              THEN Divide(Times(Number(2), Times(precision, recall)),
                          Plus(precision, recall))
              ELSE Zero
    IN  [precision |-> precision, recall |-> recall, f1 |-> f1]

\* results = {'class_metrics': class_metrics, 'accuracy': accuracy}
Results(conf) ==
    [returned |-> TRUE,
     class_metrics |-> [c \in Classes |-> ClassMetrics(conf, c)],
     accuracy |-> Accuracy(conf)]

\* The call starts: confusion = torch.zeros(3, 3); the positions of the
\* examples the loader will yield, in the order of the dataset
EvalInit ==
    /\ AlignIdle
    /\ NoTraining
    /\ NoSearch
    /\ ReadIdle
    /\ ev_pc = "loop"
    /\ ev_tokens \in SeqsUpTo(Positions, MaxTokens)
    /\ ev_seen = {}
    /\ confusion = ZeroMatrix
    /\ ev_results = NoResults

\* The next position of the data, selected by the mask or not: any position
\* not seen yet, whatever the batches (the loaders shuffle)
EvalToken ==
    /\ ev_pc = "loop"
    /\ \E k \in DOMAIN ev_tokens \ ev_seen :
          /\ confusion' = CountToken(confusion, ev_tokens[k])
          /\ ev_seen' = ev_seen \cup {k}
    /\ UNCHANGED <<ev_pc, ev_tokens, ev_results>>
    /\ UNCHANGED <<al_vars, tr_vars, sc_vars, rd_vars>>

\* The loader is exhausted: the metrics are computed and returned
EvalReturn ==
    /\ ev_pc = "loop"
    /\ ev_seen = DOMAIN ev_tokens
    /\ ev_results' = Results(confusion)
    /\ ev_pc' = "done"
    /\ UNCHANGED <<ev_tokens, ev_seen, confusion>>
    /\ UNCHANGED <<al_vars, tr_vars, sc_vars, rd_vars>>

EvalNext == EvalToken \/ EvalReturn

SpecEval == EvalInit /\ [][EvalNext]_vars

(***************************************************************************)
(* Properties of the evaluation                                            *)
(***************************************************************************)
\* The tokens of the set S of positions under the mask, with true label t
\* and prediction p
CountPairs(S, t, p) == Cardinality({k \in S : ev_tokens[k] = <<t, p, 1>>})

AllTokens == DOMAIN ev_tokens

\* The tokens counted, and those among them predicted right
Counted == SumOver([t \in Classes |-> SumOver([p \in Classes |-> CountPairs(AllTokens, t, p)])])
Correct == SumOver([c \in Classes |-> CountPairs(AllTokens, c, c)])

\* Equality of two fractions
SameNumber(x, y) == IsNumber(x) /\ IsNumber(y) /\ x[1] * y[2] = y[1] * x[2]

\* A matrix of diagonal 10, 5, 20 and total 40
ExampleConfusion ==
    [t \in Classes |-> [p \in Classes |->
        IF t = p THEN <<10, 5, 20>>[t + 1]
        ELSE IF <<t, p>> \in {<<0, 1>>, <<2, 1>>} THEN 2
        ELSE IF <<t, p>> = <<1, 0>> THEN 1 ELSE 0]]

\* C17: the accuracy returned is (tokens predicted right) / (tokens counted),
\* lies in [0, 1], is a number and not an error, and is 0 when no token was
\* counted; the matrix of diagonal 10, 5, 20 and total 40 gives 35/40.
C17_Accuracy ==
    /\ ev_pc = "done" =>
          LET accuracy == ev_results.accuracy
          IN  /\ IsNumber(accuracy)
              /\ Counted > 0 => SameNumber(accuracy, <<Correct, Counted>>)
              /\ Counted = 0 => accuracy = Zero
              /\ 0 <= accuracy[1] /\ accuracy[1] <= accuracy[2]
    /\ Total(ExampleConfusion) = 40
    /\ SameNumber(Accuracy(ExampleConfusion), <<35, 40>>)

\* C17 witness: an evaluation over two tokens, one right and one wrong,
\* returned the accuracy 1/2
C17_Witness ==
    /\ ev_pc = "done"
    /\ Len(ev_tokens) = 2
    /\ Counted = 2
    /\ SameNumber(ev_results.accuracy, <<1, 2>>)

\* The matrix the loops build from the tokens of S among the first k, taken
\* in the order of the dataset
RECURSIVE Accumulate(_, _)
Accumulate(S, k) ==
    IF k = 0 THEN ZeroMatrix
    ELSE IF k \in S THEN CountToken(Accumulate(S, k - 1), ev_tokens[k])
    ELSE Accumulate(S, k - 1)

\* The sum of two partial matrices
MatrixSum(a, b) == [t \in Classes |-> [p \in Classes |-> a[t][p] + b[t][p]]]

\* C18: whatever tokens the loops have gone through, in whatever order and
\* batches, the matrix holds for each cell the number of those tokens with
\* that label and prediction; the matrices of two parts of the data add up
\* to the matrix of the whole; and the results returned are those of the
\* data taken in the order of the dataset.
C18_OrderIndependence ==
    /\ \A t \in Classes : \A p \in Classes :
          confusion[t][p] = CountPairs(ev_seen, t, p)
    /\ confusion = Accumulate(ev_seen, Len(ev_tokens))
    /\ MatrixSum(confusion, Accumulate(AllTokens \ ev_seen, Len(ev_tokens)))
          = Accumulate(AllTokens, Len(ev_tokens))
    /\ ev_pc = "done" =>
          ev_results = Results(Accumulate(AllTokens, Len(ev_tokens)))

\* C18 witness: the second token was counted before the first, which goes
\* to another cell
C18_Witness ==
    /\ Len(ev_tokens) = 2
    /\ ev_seen = {2}
    /\ ev_tokens[1] \in Classes \X Classes \X {1}
    /\ ev_tokens[2] \in Classes \X Classes \X {1}
    /\ ev_tokens[2] # ev_tokens[1]
    /\ Total(confusion) = 1

\* C19: for each class c the returned precision is TP/(TP+FP), or 0 when
\* TP+FP = 0, the recall TP/(TP+FN), or 0 when TP+FN = 0, and the F1
\* 2*precision*recall/(precision+recall), or 0 when both are 0, with TP the
\* tokens of label and prediction c, FP the others predicted c and FN the
\* others of label c; none of the three is a division error.
C19_ClassMetrics ==
    ev_pc = "done" =>
        \A c \in Classes :
            LET m == ev_results.class_metrics[c]
                TP == CountPairs(AllTokens, c, c)
                FP == SumOver([t \in Classes |->
                          IF t = c THEN 0 ELSE CountPairs(AllTokens, t, c)])
                FN == SumOver([p \in Classes |->
                          IF p = c THEN 0 ELSE CountPairs(AllTokens, c, p)])
            IN  /\ IsNumber(m.precision) /\ IsNumber(m.recall) /\ IsNumber(m.f1)
                /\ TP + FP > 0 => SameNumber(m.precision, <<TP, TP + FP>>)
                /\ TP + FP = 0 => m.precision = Zero
                /\ TP + FN > 0 => SameNumber(m.recall, <<TP, TP + FN>>)
                /\ TP + FN = 0 => m.recall = Zero
                /\ IF m.precision[1] = 0 /\ m.recall[1] = 0
                   THEN m.f1 = Zero
                   ELSE SameNumber(Times(m.f1, Plus(m.precision, m.recall)),
                                   Times(Number(2), Times(m.precision, m.recall)))

\* C19 witness: class 0 has precision 1/2, recall 1 and F1 2/3, class 1 was
\* never predicted and class 2 has neither label nor prediction
C19_Witness ==
    /\ ev_pc = "done"
    /\ SameNumber(ev_results.class_metrics[0].precision, <<1, 2>>)
    /\ SameNumber(ev_results.class_metrics[0].recall, <<1, 1>>)
    /\ SameNumber(ev_results.class_metrics[0].f1, <<2, 3>>)
    /\ ColSum(confusion, 1) = 0
    /\ RowSum(confusion, 1) = 1
    /\ ev_results.class_metrics[1].precision = Zero
    /\ ev_results.class_metrics[2].f1 = Zero

(***************************************************************************)
(* Properties of the search                                                *)
(***************************************************************************)
\* The processes of trial t
ProcsOf(t) == {p \in Active : p[1] = t}

\* C14: the trial tune_learning_rate returns has not failed, and no trial
\* that has not failed has a strictly higher validation accuracy.
C14_BestAmongNonFailed ==
    best # 0 =>
        /\ trial_status[best] # "failed"
        /\ HasVal(best)
        /\ \A u \in 1 .. num_trials :
              (trial_status[u] # "failed" /\ HasVal(u)) => LastVal(u) <= LastVal(best)

C21_EvaluationOnCadence ==
    \A p \in Active :
        train_accuracy[p] # NoEpoch => train_accuracy[p] % checkpoint_freq = 0

\* The epochs of the reports of p that carry a checkpoint, in report order
CheckpointEpochs(p) == {reports[p][n].epoch : n \in {m \in ReportIdx(p) : HasCheckpoint(reports[p][m])}}

\* C25: a worker goes through the epochs 0, 1, ... in order, one at a time,
\* and only by reporting; its reports are those of the epochs 0, 1, ... in
\* that order, the report of an epoch made before any training step of the
\* next; a checkpoint is created in the epoch the worker is in, after those
\* of all earlier epochs; a worker that is done has trained and reported
\* num_epochs epochs, and takes no further step, report or checkpoint.
C25_OrderAndTermination ==
    /\ [](\A p \in Active :
            /\ \A n \in ReportIdx(p) : reports[p][n].epoch = n - 1
            /\ pc[p] \in {"train", "evaluate", "save", "eval_val", "report_loss"} =>
                  (Len(reports[p]) = epoch[p] /\ epoch[p] < num_epochs)
            /\ params[p].head = epoch[p] * shard + batch_no[p] \/ pc[p] \in {"start", "failed"}
            /\ \A e \in Epochs : saves[p][e] > 0 => e <= epoch[p]
            /\ pc[p] = "done" =>
                  /\ epoch[p] = num_epochs
                  /\ Len(reports[p]) = num_epochs
                  /\ params[p].head = num_epochs * shard)
    /\ [][\A p \in Active :
            /\ epoch'[p] \in {epoch[p], epoch[p] + 1}
            /\ epoch'[p] # epoch[p] =>
                  (Len(reports'[p]) = Len(reports[p]) + 1 /\ batch_no[p] = shard)
            /\ \A e \in Epochs : saves'[p][e] # saves[p][e] => e = epoch[p]
            /\ pc[p] = "done" =>
                  /\ pc'[p] = "done"
                  /\ params'[p] = params[p]
                  /\ batch_no'[p] = batch_no[p]
                  /\ reports'[p] = reports[p]
                  /\ saves'[p] = saves[p]]_vars

\* C25 witness: both workers of a run of two epochs are done, the rank 0
\* worker with two reports and the checkpoints of epochs 0 and 1, and the
\* run is completed
C25_Witness ==
    /\ num_workers = 2
    /\ num_epochs = 2
    /\ checkpoint_freq = 1
    /\ pc[<<1, 0>>] = "done"
    /\ pc[<<1, 1>>] = "done"
    /\ CheckpointEpochs(<<1, 0>>) = {0, 1}
    /\ Len(reports[<<1, 1>>]) = 2
    /\ trial_status[1] = "completed"

\* C26: when the rank 0 worker has ended normally, the last checkpoint it
\* reported, the one retrieved after the run, holds the parameters the model
\* has after the last epoch.
C26_FinalCheckpointIsFinalModel ==
    (pc[<<1, 0>>] = "done" /\ HasVal(1)) =>
        /\ FinalCheckpoint.model.head = params[<<1, 0>>].head
        /\ FinalCheckpoint.model.base = params[<<1, 0>>].base

(***************************************************************************)
(* Further properties of the aligner                                       *)
(***************************************************************************)
\* C22: in every aligned example position 1 holds the begin marker and the
\* position right after the content the end marker, both with label -100;
\* attention_mask is 1 from the begin marker through the end marker and 0
\* after it; every later position holds the pad id with label -100; and every
\* label strictly between the markers is a class index 0, 1 or 2.
C22_FinalLayout ==
    Aligned =>
        LET e == TheExample
            sep == Len(Content(e)) + 2
        IN  /\ e.input_ids[1] = cls_token_id
            /\ e.input_ids[sep] = sep_token_id
            /\ e.labels[1] = IGNORE
            /\ sep \in DOMAIN e.labels
            /\ e.labels[sep] = IGNORE
            /\ \A q \in DOMAIN e.attention_mask :
                   e.attention_mask[q] = IF q <= sep THEN 1 ELSE 0
            /\ DOMAIN e.attention_mask = DOMAIN e.input_ids
            /\ \A q \in sep + 1 .. Len(e.input_ids) :
                   /\ e.input_ids[q] = pad_token_id
                   /\ q \in DOMAIN e.labels
                   /\ e.labels[q] = IGNORE
            /\ \A q \in 2 .. sep - 1 : e.labels[q] \in Classes

\* How many elements of seq are x
Occurrences(seq, x) == Cardinality({j \in DOMAIN seq : seq[j] = x})

\* C23: when the word loop of a record is left, the token ids are subword
\* ids of the record's words in order, a word of zero subwords having added
\* nothing; the label list is as long as the token list, the label at index
\* j being the one the word that produced token j gives it; and the output
\* has no more B labels than the record has words labelled B.
C23_WordLoopAlignment ==
    Aligned =>
        LET loc == WordLoop(record.words, record.label_list, 1, <<>>, <<>>)
            all == AllSubwordIds(record.words)
            rule == RuleLabels(record.words, record.label_list)
        IN  /\ loc.input_ids = Take(all, Len(loc.input_ids))
            /\ Len(loc.aligned_labels) = Len(loc.input_ids)
            /\ \A j \in DOMAIN loc.aligned_labels : loc.aligned_labels[j] = rule[j]
            /\ Occurrences(TheExample.labels, label_to_int("B"))
                   <= Occurrences(record.label_list, "B")

(***************************************************************************)
(* Further properties of the evaluation                                    *)
(***************************************************************************)
\* The positions that are to be counted: attention mask 1 and a true label
\* that is a class
Countable(S) == {k \in S : ev_tokens[k][3] = 1 /\ ev_tokens[k][1] \in Classes}

\* C24: during a pass no cell of the confusion matrix ever decreases; a
\* position with attention mask 1 and a true label 0, 1 or 2 increments
\* exactly one cell, its own, by exactly 1; a position with true label -100
\* or attention mask 0 changes no cell; and the sum of the cells is the
\* number of the positions gone through, at the end of all positions, that
\* have attention mask 1 and a true label in {0, 1, 2}.
C24_ConfusionAccounting ==
    /\ [](/\ Total(confusion) = Cardinality(Countable(ev_seen))
          /\ ev_pc = "done" => Total(confusion) = Cardinality(Countable(AllTokens)))
    /\ [][/\ \A t \in Classes : \A p \in Classes : confusion'[t][p] >= confusion[t][p]
          /\ \A k \in ev_seen' \ ev_seen :
                IF k \in Countable(AllTokens)
                THEN /\ confusion'[ev_tokens[k][1]][ev_tokens[k][2]]
                            = confusion[ev_tokens[k][1]][ev_tokens[k][2]] + 1
                     /\ \A t \in Classes : \A p \in Classes :
                            <<t, p>> # <<ev_tokens[k][1], ev_tokens[k][2]>> =>
                                confusion'[t][p] = confusion[t][p]
                ELSE confusion' = confusion
          /\ ev_seen' = ev_seen => confusion' = confusion]_vars

\* C24 witness: a pass over a position of attention mask 0 with a true label
\* that is a class, and a position of mask 1, counted, has ended with one
\* cell at 1 and all others at 0
C24_Witness ==
    /\ ev_pc = "done"
    /\ Len(ev_tokens) = 2
    /\ ev_tokens[1][3] = 0
    /\ ev_tokens[1][1] \in Classes
    /\ ev_tokens[2] = <<1, 2, 1>>
    /\ confusion = [ZeroMatrix EXCEPT ![1][2] = 1]

(***************************************************************************)
(* The corpus reader: _read_tsv_data(input_file, fetch_limit)              *)
(***************************************************************************)
\* The characters of a field; a field (a word or a tag) is one character
Tokens == 1 .. 2

\* The blank that " ".join puts between two fields
Space == 0

\* line.splitlines()[0].split() of a line of the file: no field (a blank
\* line), one field, or a word and a tag
FileLines == UNION {[1 .. n -> Tokens] : n \in 0 .. 2}

Files == SeqsUpTo(FileLines, MaxLines)

\* " ".join(fields)
RECURSIVE Join(_)
Join(fields) ==
    IF fields = <<>> THEN <<>>
    ELSE IF Len(fields) = 1 THEN <<fields[1]>>
    ELSE <<fields[1], Space>> \o Join(Tail(fields))

\* str.split() of a string of one-character fields and blanks
NotSpace(c) == c # Space
Split(str) == SelectSeq(str, NotSpace)

\* A reader that never stops at the limit
LimitReached_Never(counter, limit) == FALSE

\* if counter > fetch_limit - 1: break
LimitReached(counter, limit) == counter > limit - 1

\* lines.append((labelSent, wordSent))
Sentence(words, labels) == [labelSent |-> Join(labels), wordSent |-> Join(words)]

\* The loop over the lines of the file, from line n on, with the locals
\* lines, words, labels and counter; the result is the locals when the loop
\* is left (exhausted or by break).  words and labels grow together, so the
\* assert of the blank-line branch never fails.
RECURSIVE LineLoop(_, _, _, _, _, _, _)
LineLoop(file, n, lines, words, labels, counter, limit) ==
    IF n > Len(file)
    THEN [lines |-> lines, words |-> words, labels |-> labels, counter |-> counter]
    ELSE LET lineList == file[n]
         IN  IF Len(lineList) = 0
             THEN IF LimitReached(counter, limit)
                  THEN [lines |-> lines, words |-> words, labels |-> labels,
                        counter |-> counter]
                  ELSE IF Len(words) # 0
                       THEN LineLoop(file, n + 1, Append(lines, Sentence(words, labels)),
                                     <<>>, <<>>, counter + 1, limit)
                       ELSE LineLoop(file, n + 1, lines, words, labels, counter, limit)
             ELSE LineLoop(file, n + 1, lines, Append(words, lineList[1]),
                           Append(labels, lineList[Len(lineList)]), counter, limit)

\* The whole function: the loop, then the sentence left in words when the
\* file does not end in a blank line
read_tsv_data(file, limit) ==
    LET loc == LineLoop(file, 1, <<>>, <<>>, <<>>, 0, limit)
    IN  IF Len(loc.words) # 0 /\ loc.counter < limit - 1
        THEN Append(loc.lines, Sentence(loc.words, loc.labels))
        ELSE loc.lines

ReadInit ==
    /\ AlignIdle
    /\ NoTraining
    /\ NoSearch
    /\ EvalIdle
    /\ rd_pc = "call"
    /\ input_file \in Files
    /\ fetch_limit \in 1 .. MaxFetch
    /\ rd_lines = <<>>

ReadFile ==
    /\ rd_pc = "call"
    /\ rd_lines' = read_tsv_data(input_file, fetch_limit)
    /\ rd_pc' = "returned"
    /\ UNCHANGED <<input_file, fetch_limit>>
    /\ UNCHANGED <<al_vars, tr_vars, sc_vars, ev_vars>>

ReadNext == ReadFile

SpecRead == ReadInit /\ [][ReadNext]_vars

(***************************************************************************)
(* Properties of the corpus reader                                         *)
(***************************************************************************)
\* The sentences of a file: its maximal runs of lines that are not blank,
\* each run a list of lines; cur is the run being read
RECURSIVE Runs(_, _)
Runs(file, cur) ==
    IF file = <<>>
    THEN IF cur = <<>> THEN <<>> ELSE <<cur>>
    ELSE IF Head(file) = <<>>
         THEN (IF cur = <<>> THEN <<>> ELSE <<cur>>) \o Runs(Tail(file), <<>>)
         ELSE Runs(Tail(file), Append(cur, Head(file)))

\* The pair of strings of a run: the last fields and the first fields of
\* its lines
PairOf(run) ==
    [labelSent |-> Join([j \in 1 .. Len(run) |-> run[j][Len(run[j])]]),
     wordSent |-> Join([j \in 1 .. Len(run) |-> run[j][1]])]

\* The sentences of the file, and those of them followed by a blank line
FileSentences == Runs(input_file, <<>>)
LastBlank == Max({0} \cup {n \in DOMAIN input_file : input_file[n] = <<>>})
Terminated == Runs(SubSeq(input_file, 1, LastBlank), <<>>)

\* C27: the list returned holds at most fetch_limit sentences; they are the
\* first sentences of the file, in file order; each has at least one word
\* and as many labels as words; and blank lines that follow a blank line add
\* no sentence and use up nothing of the limit: of the sentences followed by
\* a blank line, the first fetch_limit are all returned.
C27_ReaderBounds ==
    rd_pc = "returned" =>
        /\ Len(rd_lines) <= fetch_limit
        /\ Len(rd_lines) <= Len(FileSentences)
        /\ \A n \in DOMAIN rd_lines :
              /\ rd_lines[n] = PairOf(FileSentences[n])
              /\ Len(Split(rd_lines[n].wordSent)) >= 1
              /\ Len(Split(rd_lines[n].labelSent)) = Len(Split(rd_lines[n].wordSent))
        /\ Len(rd_lines) >= Min(fetch_limit, Len(Terminated))

\* C27 witness: a file of two sentences with two blank lines between them,
\* read with fetch_limit 1, gave the first sentence alone
C27_Witness ==
    /\ rd_pc = "returned"
    /\ fetch_limit = 1
    /\ Len(input_file) = 4
    /\ input_file[1] # <<>>
    /\ input_file[2] = <<>>
    /\ input_file[3] = <<>>
    /\ input_file[4] # <<>>
    /\ rd_lines = <<PairOf(<<input_file[1]>>)>>

\* C28: for a file of at most fetch_limit sentences whose last line is not
\* blank, the list returned is the one returned for the same file with a
\* blank line added at its end, and holds every sentence of the file, the
\* last included.
C28_TrailingBlankLine ==
    (/\ rd_pc = "returned"
     /\ input_file # <<>>
     /\ input_file[Len(input_file)] # <<>>
     /\ Len(FileSentences) <= fetch_limit) =>
        /\ rd_lines = read_tsv_data(Append(input_file, <<>>), fetch_limit)
        /\ Len(rd_lines) = Len(FileSentences)
====
